---- MODULE Spec2Model ----
(***************************************************************************)
(* Food delivery order management API: the order lifecycle state machine   *)
(* (statemachine.ValidateTransition, GetAllowedTransitions over            *)
(* transitionMap) and the HTTP handlers of OrderHandler that read and      *)
(* write order documents in the MongoDB store.                             *)
(*                                                                         *)
(* A handler runs in its own goroutine per request.  Its only shared state *)
(* is the store; a handler is therefore cut into one atomic step per store *)
(* operation; the local computation between two store operations touches  *)
(* nothing shared and is attached to the earlier one.                      *)
(***************************************************************************)
EXTENDS Naturals, Sequences, FiniteSets

\* ------------------------------------------------------------------ bounds
\* Concurrent client connections, each carrying one request at a time.
NumProcs == 2
\* Order ids that uuid.New() can hand out.
MaxOrders == 1
\* Registered drivers that send requests.
NumDrivers == 2

\* ------------------------------------------------------------ models (Go)
StatusPlaced == "PLACED"
StatusConfirmed == "CONFIRMED"
StatusPreparing == "PREPARING"
StatusReadyForPickup == "READY_FOR_PICKUP"
StatusPickedUp == "PICKED_UP"
StatusOutForDelivery == "OUT_FOR_DELIVERY"
StatusDelivered == "DELIVERED"
StatusCancelled == "CANCELLED"

\* The declared values of OrderStatus.
OrderStatus ==
    { StatusPlaced, StatusConfirmed, StatusPreparing, StatusReadyForPickup,
      StatusPickedUp, StatusOutForDelivery, StatusDelivered, StatusCancelled }

RoleCustomer == "customer"
RoleRestaurant == "restaurant"
RoleDriver == "driver"

\* The declared values of Role (Role.IsValid).
Role == { RoleCustomer, RoleRestaurant, RoleDriver }

\* ------------------------------------------------------------ statemachine
\* One entry of a transitionMap slice: struct transition {To, AllowedRoles}.
transition(to, allowedRoles) == [To |-> to, AllowedRoles |-> allowedRoles]

\* A variant of transitionMap whose entry for PREPARING has lost its rule.
transitionMapStuckPreparing ==
    [s \in { StatusPlaced, StatusConfirmed, StatusPreparing,
             StatusReadyForPickup, StatusPickedUp, StatusOutForDelivery } |->
        CASE s = StatusPlaced ->
               << transition(StatusConfirmed, <<RoleRestaurant>>),
                  transition(StatusCancelled, <<RoleCustomer>>) >>
          [] s = StatusConfirmed ->
               << transition(StatusPreparing, <<RoleRestaurant>>),
                  transition(StatusCancelled, <<RoleCustomer, RoleRestaurant>>) >>
          [] s = StatusPreparing -> << >>
          [] s = StatusReadyForPickup ->
               << transition(StatusPickedUp, <<RoleDriver>>) >>
          [] s = StatusPickedUp ->
               << transition(StatusOutForDelivery, <<RoleDriver>>) >>
          [] s = StatusOutForDelivery ->
               << transition(StatusDelivered, <<RoleDriver>>) >> ]

\* A variant of transitionMap in which the restaurant can put a CONFIRMED
\* order back to PLACED.
transitionMapBackToPlaced ==
    [s \in { StatusPlaced, StatusConfirmed, StatusPreparing,
             StatusReadyForPickup, StatusPickedUp, StatusOutForDelivery } |->
        CASE s = StatusPlaced ->
               << transition(StatusConfirmed, <<RoleRestaurant>>),
                  transition(StatusCancelled, <<RoleCustomer>>) >>
          [] s = StatusConfirmed ->
               << transition(StatusPreparing, <<RoleRestaurant>>),
                  transition(StatusCancelled, <<RoleCustomer, RoleRestaurant>>),
                  transition(StatusPlaced, <<RoleRestaurant>>) >>
          [] s = StatusPreparing ->
               << transition(StatusReadyForPickup, <<RoleRestaurant>>) >>
          [] s = StatusReadyForPickup ->
               << transition(StatusPickedUp, <<RoleDriver>>) >>
          [] s = StatusPickedUp ->
               << transition(StatusOutForDelivery, <<RoleDriver>>) >>
          [] s = StatusOutForDelivery ->
               << transition(StatusDelivered, <<RoleDriver>>) >> ]

\* A variant of transitionMap in which the restaurant, not the driver, marks
\* the order picked up.
transitionMapRestaurantPicksUp ==
    [s \in { StatusPlaced, StatusConfirmed, StatusPreparing,
             StatusReadyForPickup, StatusPickedUp, StatusOutForDelivery } |->
        CASE s = StatusPlaced ->
               << transition(StatusConfirmed, <<RoleRestaurant>>),
                  transition(StatusCancelled, <<RoleCustomer>>) >>
          [] s = StatusConfirmed ->
               << transition(StatusPreparing, <<RoleRestaurant>>),
                  transition(StatusCancelled, <<RoleCustomer, RoleRestaurant>>) >>
          [] s = StatusPreparing ->
               << transition(StatusReadyForPickup, <<RoleRestaurant>>) >>
          [] s = StatusReadyForPickup ->
               << transition(StatusPickedUp, <<RoleRestaurant>>) >>
          [] s = StatusPickedUp ->
               << transition(StatusOutForDelivery, <<RoleDriver>>) >>
          [] s = StatusOutForDelivery ->
               << transition(StatusDelivered, <<RoleDriver>>) >> ]

\* var transitionMap: a Go map, so a status without a key has no entry.
transitionMap ==
    [s \in { StatusPlaced, StatusConfirmed, StatusPreparing,
             StatusReadyForPickup, StatusPickedUp, StatusOutForDelivery } |->
        CASE s = StatusPlaced ->
               << transition(StatusConfirmed, <<RoleRestaurant>>),
                  transition(StatusCancelled, <<RoleCustomer>>) >>
          [] s = StatusConfirmed ->
               << transition(StatusPreparing, <<RoleRestaurant>>),
                  transition(StatusCancelled, <<RoleCustomer, RoleRestaurant>>) >>
          [] s = StatusPreparing ->
               << transition(StatusReadyForPickup, <<RoleRestaurant>>) >>
          [] s = StatusReadyForPickup ->
               << transition(StatusPickedUp, <<RoleDriver>>) >>
          [] s = StatusPickedUp ->
               << transition(StatusOutForDelivery, <<RoleDriver>>) >>
          [] s = StatusOutForDelivery ->
               << transition(StatusDelivered, <<RoleDriver>>) >> ]

\* An error value built by fmt.Errorf: the format and the arguments it prints
\* (an argument the format does not print is empty).
Errorf(format, role, currentStatus, newStatus, validTargets) ==
    [format |-> format, role |-> role, currentStatus |-> currentStatus,
     newStatus |-> newStatus, validTargets |-> validTargets]

\* The nil error.
nil == Errorf("", "", "", "", <<>>)

FmtTerminal == "no transitions allowed from status '%s' (terminal state)"
FmtUnauthorized == "role '%s' is not authorized to transition order from '%s' to '%s'"
FmtInvalid == "invalid transition from '%s' to '%s'; valid transitions: %v"

\* for _, t := range allowedTransitions { if t.To == newStatus {...} }:
\* the index of the first entry at or after i whose target is newStatus, 0 if none.
RECURSIVE FindTransition(_, _, _)
FindTransition(allowedTransitions, newStatus, i) ==
    IF i > Len(allowedTransitions) THEN 0
    ELSE IF allowedTransitions[i].To = newStatus THEN i
    ELSE FindTransition(allowedTransitions, newStatus, i + 1)

\* for _, allowedRole := range t.AllowedRoles { if allowedRole == role {...} }
RECURSIVE HasRole(_, _, _)
HasRole(allowedRoles, role, j) ==
    IF j > Len(allowedRoles) THEN FALSE
    ELSE IF allowedRoles[j] = role THEN TRUE
    ELSE HasRole(allowedRoles, role, j + 1)

\* Variants of ValidateTransition with one of its checks changed; the
\* properties of ValidateTransition below must tell each from the original.
\* The role check dropped: any caller may take an existing transition.
ValidateTransitionAnyRole(currentStatus, newStatus, role) ==
    IF currentStatus \notin DOMAIN transitionMap
    THEN Errorf(FmtTerminal, "", currentStatus, "", <<>>)
    ELSE LET allowedTransitions == transitionMap[currentStatus]
             i == FindTransition(allowedTransitions, newStatus, 1)
         IN  IF i # 0
             THEN nil
             ELSE Errorf(FmtInvalid, "", currentStatus, newStatus,
                         [k \in 1..Len(allowedTransitions) |-> allowedTransitions[k].To])

\* The `exists` check dropped: a missing key yields the empty slice.
ValidateTransitionNoTerminal(currentStatus, newStatus, role) ==
    LET allowedTransitions == IF currentStatus \in DOMAIN transitionMap
                              THEN transitionMap[currentStatus] ELSE <<>>
        i == FindTransition(allowedTransitions, newStatus, 1)
    IN  IF i # 0
        THEN IF HasRole(allowedTransitions[i].AllowedRoles, role, 1)
             THEN nil
             ELSE Errorf(FmtUnauthorized, role, currentStatus, newStatus, <<>>)
        ELSE Errorf(FmtInvalid, "", currentStatus, newStatus,
                    [k \in 1..Len(allowedTransitions) |-> allowedTransitions[k].To])

\* The role checked before the target: a role with no transition from the
\* current status is refused as unauthorized whatever the target.
ValidateTransitionRoleFirst(currentStatus, newStatus, role) ==
    IF currentStatus \notin DOMAIN transitionMap
    THEN Errorf(FmtTerminal, "", currentStatus, "", <<>>)
    ELSE LET allowedTransitions == transitionMap[currentStatus]
             i == FindTransition(allowedTransitions, newStatus, 1)
         IN  IF \A k \in 1..Len(allowedTransitions) :
                    ~HasRole(allowedTransitions[k].AllowedRoles, role, 1)
             THEN Errorf(FmtUnauthorized, role, currentStatus, newStatus, <<>>)
             ELSE IF i # 0
             THEN IF HasRole(allowedTransitions[i].AllowedRoles, role, 1)
                  THEN nil
                  ELSE Errorf(FmtUnauthorized, role, currentStatus, newStatus, <<>>)
             ELSE Errorf(FmtInvalid, "", currentStatus, newStatus,
                         [k \in 1..Len(allowedTransitions) |-> allowedTransitions[k].To])

\* A role mismatch continues the loop instead of returning: the caller is
\* told the transition is invalid.
ValidateTransitionSkipRole(currentStatus, newStatus, role) ==
    IF currentStatus \notin DOMAIN transitionMap
    THEN Errorf(FmtTerminal, "", currentStatus, "", <<>>)
    ELSE LET allowedTransitions == transitionMap[currentStatus]
             i == FindTransition(allowedTransitions, newStatus, 1)
         IN  IF i # 0 /\ HasRole(allowedTransitions[i].AllowedRoles, role, 1)
             THEN nil
             ELSE Errorf(FmtInvalid, "", currentStatus, newStatus,
                         [k \in 1..Len(allowedTransitions) |-> allowedTransitions[k].To])

\* The role looked up in the first rule of the current status, not in the
\* rule of the target.
ValidateTransitionFirstRule(currentStatus, newStatus, role) ==
    IF currentStatus \notin DOMAIN transitionMap
    THEN Errorf(FmtTerminal, "", currentStatus, "", <<>>)
    ELSE LET allowedTransitions == transitionMap[currentStatus]
             i == FindTransition(allowedTransitions, newStatus, 1)
         IN  IF i # 0
             THEN IF HasRole(allowedTransitions[1].AllowedRoles, role, 1)
                  THEN nil
                  ELSE Errorf(FmtUnauthorized, role, currentStatus, newStatus, <<>>)
             ELSE Errorf(FmtInvalid, "", currentStatus, newStatus,
                         [k \in 1..Len(allowedTransitions) |-> allowedTransitions[k].To])

\* func ValidateTransition(currentStatus, newStatus, role) error
ValidateTransition(currentStatus, newStatus, role) ==
    IF currentStatus \notin DOMAIN transitionMap
    THEN Errorf(FmtTerminal, "", currentStatus, "", <<>>)
    ELSE LET allowedTransitions == transitionMap[currentStatus]
             i == FindTransition(allowedTransitions, newStatus, 1)
         IN  IF i # 0
             THEN IF HasRole(allowedTransitions[i].AllowedRoles, role, 1)
                  THEN nil
                  ELSE Errorf(FmtUnauthorized, role, currentStatus, newStatus, <<>>)
             ELSE Errorf(FmtInvalid, "", currentStatus, newStatus,
                         [k \in 1..Len(allowedTransitions) |-> allowedTransitions[k].To])

\* The loop of GetAllowedTransitions over transitions[i..]: result = append(...).
RECURSIVE AppendAllowed(_, _, _)
AppendAllowed(transitions, role, i) ==
    IF i > Len(transitions) THEN <<>>
    ELSE IF role = "" \/ HasRole(transitions[i].AllowedRoles, role, 1)
         THEN <<transitions[i].To>> \o AppendAllowed(transitions, role, i + 1)
         ELSE AppendAllowed(transitions, role, i + 1)

\* A variant of GetAllowedTransitions without the role filter.
GetAllowedTransitionsAllTargets(currentStatus, role) ==
    IF currentStatus \notin DOMAIN transitionMap
    THEN <<>>
    ELSE [k \in 1..Len(transitionMap[currentStatus]) |->
            transitionMap[currentStatus][k].To]

\* A variant of GetAllowedTransitions that compares the role with the first
\* allowed role of each rule only.
GetAllowedTransitionsFirstRole(currentStatus, role) ==
    IF currentStatus \notin DOMAIN transitionMap
    THEN <<>>
    ELSE LET sel == SelectSeq(transitionMap[currentStatus],
                              LAMBDA t : role = "" \/ t.AllowedRoles[1] = role)
         IN  [k \in 1..Len(sel) |-> sel[k].To]

\* func GetAllowedTransitions(currentStatus, role) []OrderStatus (nil is <<>>).
GetAllowedTransitions(currentStatus, role) ==
    IF currentStatus \notin DOMAIN transitionMap
    THEN <<>>
    ELSE AppendAllowed(transitionMap[currentStatus], role, 1)


\* ------------------------------------------------------------------ net/http
StatusOK == 200
StatusCreated == 201
StatusBadRequest == 400
StatusUnauthorized == 401
StatusForbidden == 403
StatusNotFound == 404
StatusInternalServerError == 500

\* ---------------------------------------------------------------- the store
\* models.StatusChange (the Timestamp, a wall-clock reading that no decision
\* depends on, is left out).
StatusChange(fromStatus, toStatus, changedBy, role) ==
    [FromStatus |-> fromStatus, ToStatus |-> toStatus,
     ChangedBy |-> changedBy, Role |-> role]

\* The zero value of models.Order (CreatedAt and UpdatedAt are left out like
\* Timestamp).
ZeroOrder ==
    [ID |-> 0, CustomerID |-> "", RestaurantID |-> "", DriverID |-> "",
     Items |-> <<>>, TotalAmount |-> 0, Status |-> "", StatusHistory |-> <<>>,
     DeliveryAddress |-> ""]

\* The ids uuid.New() hands out, each at most once.
OrderIDs == 1..MaxOrders

DriverNames == <<"dan", "dave", "dora", "drew">>
Drivers == { DriverNames[i] : i \in 1..NumDrivers }

\* The users collection: registered users by id (RegisterUser accepts only a
\* valid Role).
users ==
    [u \in {"alice", "resto"} \cup Drivers |->
        [ID |-> u,
         Role |-> IF u = "alice" THEN RoleCustomer
                  ELSE IF u = "resto" THEN RoleRestaurant ELSE RoleDriver]]

\* The menu_items collection.
menuItems ==
    [m \in {"pizza", "salad", "soup", "taco"} |->
        [ID |-> m,
         RestaurantID |-> IF m = "taco" THEN "cantina" ELSE "resto",
         Name |-> m,
         Price |-> IF m = "pizza" THEN 13 ELSE 7,
         Available |-> m # "soup"]]

\* The request headers X-User-ID and X-User-Role a client sends: every
\* registered user with its role, a caller whose role is outside the
\* enumeration, and requests that lack one of the headers.
Callers ==
    { <<u, users[u].Role>> : u \in DOMAIN users }
        \cup { <<"mallory", "admin">>, <<"", RoleCustomer>>, <<"alice", "">> }

VARIABLES
    orders,   \* the orders collection: order id -> order document
    conn,     \* per connection: the request being served and its response
    call,     \* a direct call of a statemachine function and its result
    burst     \* a burst of concurrent requests on one order: the order
              \* document when it starts and the request of each connection

vars == <<orders, conn, call, burst>>

Procs == 1..NumProcs

\* A connection with no request in progress.
Idle ==
    [pc |-> "idle", op |-> "", id |-> 0, userID |-> "", role |-> "",
     status |-> "", order |-> ZeroOrder, code |-> 0]

\* A request of a burst, by the connection that sends it.
BurstRequest(userID, role, status) ==
    [userID |-> userID, role |-> role, status |-> status]

NoBurst == [order |-> ZeroOrder, reqs |-> [p \in Procs |-> BurstRequest("", "", "")]]

NoCall == [fn |-> "", currentStatus |-> "", newStatus |-> "", role |-> "",
           err |-> nil, result |-> <<>>, code |-> 0]

\* func (s *Store) GetOrder(id): found reports err == nil.
GetOrderFound(id) == id \in DOMAIN orders
GetOrder(id) == IF id \in DOMAIN orders THEN orders[id] ELSE ZeroOrder

\* A variant of SaveOrder that replaces the collection, not the document.
SaveOrderAlone(order) == [i \in {order.ID} |-> order]

\* func (s *Store) SaveOrder(order): ReplaceOne with upsert, one atomic
\* document replacement.
SaveOrder(order) ==
    [i \in DOMAIN orders \cup {order.ID} |->
        IF i = order.ID THEN order ELSE orders[i]]

\* A variant of AuthMiddleware that looks at X-User-ID only.
AuthMiddlewareUserOnly(userID, userRole) == ~(userID = "")

\* func AuthMiddleware: TRUE when the request is passed on to the handler.
AuthMiddleware(userID, userRole) == ~(userID = "" \/ userRole = "")

\* respondJSON / respondError: the request on connection p is answered with
\* the status code and, for a 200 or 201, the order; what the request carried
\* is gone with the handler's frame.
Respond(p, op, id, code, order) ==
    conn' = [conn EXCEPT ![p] =
        [pc |-> "done", op |-> op, id |-> id, userID |-> "", role |-> "",
         status |-> "", order |-> order, code |-> code]]

Init ==
    /\ orders = <<>>
    /\ conn = [p \in Procs |-> Idle]
    /\ call = NoCall
    /\ burst = NoBurst


\* ------------------------------------------------------------ request bodies
\* models.UpdateStatusRequest as sent: ok is FALSE for a body json.Decode
\* rejects; Status is any string, here a declared status or the empty string
\* of a body without the field.
UpdateBodies ==
    { [ok |-> TRUE, Status |-> t] : t \in OrderStatus \cup {""} }
        \cup { [ok |-> FALSE, Status |-> ""] }

\* models.OrderItemRequest
OrderItemRequest(menuItemID, quantity) ==
    [MenuItemID |-> menuItemID, Quantity |-> quantity]

\* models.CreateOrderFromMenuRequest
CreateOrderFromMenuRequest(ok, restaurantID, items, deliveryAddress) ==
    [ok |-> ok, RestaurantID |-> restaurantID, Items |-> items,
     DeliveryAddress |-> deliveryAddress]

\* The create requests sent (ok as in UpdateBodies): one that passes every
\* check, a body with items named without a menu item id, and one body for
\* each check of CreateOrder to reject.
CreateBodies ==
    { CreateOrderFromMenuRequest(TRUE, "resto",
          <<OrderItemRequest("pizza", 2), OrderItemRequest("salad", 1)>>, "123 Main St"),
      CreateOrderFromMenuRequest(TRUE, "resto", <<OrderItemRequest("", 2)>>, "123 Main St"),
      CreateOrderFromMenuRequest(FALSE, "", <<>>, ""),
      CreateOrderFromMenuRequest(TRUE, "", <<OrderItemRequest("pizza", 2)>>, "123 Main St"),
      CreateOrderFromMenuRequest(TRUE, "resto", <<>>, "123 Main St"),
      CreateOrderFromMenuRequest(TRUE, "resto", <<OrderItemRequest("pizza", 2)>>, ""),
      CreateOrderFromMenuRequest(TRUE, "alice", <<OrderItemRequest("pizza", 2)>>, "123 Main St"),
      CreateOrderFromMenuRequest(TRUE, "resto", <<OrderItemRequest("pizza", 0)>>, "123 Main St"),
      CreateOrderFromMenuRequest(TRUE, "resto",
          <<OrderItemRequest("pizza", 1), OrderItemRequest("taco", 1)>>, "123 Main St"),
      CreateOrderFromMenuRequest(TRUE, "resto", <<OrderItemRequest("soup", 1)>>, "123 Main St") }

\* -------------------------------------------------- OrderHandler.CreateOrder
\* The loop over req.Items from item i on: TRUE when no item is rejected.
RECURSIVE ItemsAccepted(_, _, _)
ItemsAccepted(items, restaurantID, i) ==
    IF i > Len(items) THEN TRUE
    ELSE IF items[i].Quantity <= 0 THEN FALSE
    ELSE IF items[i].MenuItemID \notin DOMAIN menuItems THEN FALSE
    ELSE IF menuItems[items[i].MenuItemID].RestaurantID # restaurantID THEN FALSE
    ELSE IF ~menuItems[items[i].MenuItemID].Available THEN FALSE
    ELSE ItemsAccepted(items, restaurantID, i + 1)

\* orderItems = append(orderItems, models.OrderItem{...}) for every item.
OrderItems(items) ==
    [i \in 1..Len(items) |->
        [MenuItemID |-> menuItems[items[i].MenuItemID].ID,
         Name |-> menuItems[items[i].MenuItemID].Name,
         Quantity |-> items[i].Quantity,
         Price |-> menuItems[items[i].MenuItemID].Price]]

\* total += menuItem.Price * float64(ri.Quantity), from item i on.
RECURSIVE Total(_, _)
Total(orderItems, i) ==
    IF i > Len(orderItems) THEN 0
    ELSE orderItems[i].Price * orderItems[i].Quantity + Total(orderItems, i + 1)

\* A variant of CreateOrderCode without the check of the caller's role.
CreateOrderCodeAnyRole(role, req) ==
    IF ~req.ok THEN StatusBadRequest
    ELSE IF req.RestaurantID = "" THEN StatusBadRequest
    ELSE IF Len(req.Items) = 0 THEN StatusBadRequest
    ELSE IF req.DeliveryAddress = "" THEN StatusBadRequest
    ELSE IF req.RestaurantID \notin DOMAIN users THEN StatusBadRequest
    ELSE IF users[req.RestaurantID].Role # RoleRestaurant THEN StatusBadRequest
    ELSE IF ~ItemsAccepted(req.Items, req.RestaurantID, 1) THEN StatusBadRequest
    ELSE StatusCreated

\* A variant of CreateOrderCode that turns the two other roles away instead
\* of letting the customer through.
CreateOrderCodeDenyList(role, req) ==
    IF role = RoleRestaurant \/ role = RoleDriver THEN StatusForbidden
    ELSE IF ~req.ok THEN StatusBadRequest
    ELSE IF req.RestaurantID = "" THEN StatusBadRequest
    ELSE IF Len(req.Items) = 0 THEN StatusBadRequest
    ELSE IF req.DeliveryAddress = "" THEN StatusBadRequest
    ELSE IF req.RestaurantID \notin DOMAIN users THEN StatusBadRequest
    ELSE IF users[req.RestaurantID].Role # RoleRestaurant THEN StatusBadRequest
    ELSE IF ~ItemsAccepted(req.Items, req.RestaurantID, 1) THEN StatusBadRequest
    ELSE StatusCreated

\* The checks of CreateOrder in their order: the code of the rejection, or
\* StatusCreated when the order is to be built and saved.
CreateOrderCode(role, req) ==
    IF role # RoleCustomer THEN StatusForbidden
    ELSE IF ~req.ok THEN StatusBadRequest
    ELSE IF req.RestaurantID = "" THEN StatusBadRequest
    ELSE IF Len(req.Items) = 0 THEN StatusBadRequest
    ELSE IF req.DeliveryAddress = "" THEN StatusBadRequest
    ELSE IF req.RestaurantID \notin DOMAIN users THEN StatusBadRequest
    ELSE IF users[req.RestaurantID].Role # RoleRestaurant THEN StatusBadRequest
    ELSE IF ~ItemsAccepted(req.Items, req.RestaurantID, 1) THEN StatusBadRequest
    ELSE StatusCreated

\* A variant of NewOrder that leaves the creation entry out of the history.
NewOrderEmptyHistory(id, userID, req) ==
    [ID |-> id, CustomerID |-> userID, RestaurantID |-> req.RestaurantID,
     DriverID |-> "", Items |-> OrderItems(req.Items),
     TotalAmount |-> Total(OrderItems(req.Items), 1),
     Status |-> StatusPlaced,
     StatusHistory |-> << >>,
     DeliveryAddress |-> req.DeliveryAddress]

\* order := &models.Order{...}
NewOrder(id, userID, req) ==
    [ID |-> id, CustomerID |-> userID, RestaurantID |-> req.RestaurantID,
     DriverID |-> "", Items |-> OrderItems(req.Items),
     TotalAmount |-> Total(OrderItems(req.Items), 1),
     Status |-> StatusPlaced,
     StatusHistory |-> << StatusChange("", StatusPlaced, userID, RoleCustomer) >>,
     DeliveryAddress |-> req.DeliveryAddress]

\* POST /api/orders through AuthMiddleware.  The users and menu_items reads
\* are of collections no order handler writes, and the SaveOrder is of a
\* fresh id, so the handler is one step.
CreateOrder(p, userID, role, req) ==
    /\ conn[p].pc = "idle"
    /\ IF ~AuthMiddleware(userID, role)
       THEN /\ Respond(p, "create", 0, StatusUnauthorized, ZeroOrder)
            /\ UNCHANGED orders
       ELSE IF CreateOrderCode(role, req) # StatusCreated
       THEN /\ Respond(p, "create", 0, CreateOrderCode(role, req), ZeroOrder)
            /\ UNCHANGED orders
       ELSE \* uuid.New(): an id no order has.
            /\ OrderIDs \ DOMAIN orders # {}
            /\ LET id == CHOOSE i \in OrderIDs \ DOMAIN orders :
                            \A j \in OrderIDs \ DOMAIN orders : i <= j
                   order == NewOrder(id, userID, req)
               IN  /\ orders' = SaveOrder(order)
                   /\ Respond(p, "create", id, StatusCreated, order)
    /\ UNCHANGED <<call, burst>>

\* -------------------------------------------- OrderHandler.UpdateOrderStatus
\* A variant of RejectionCode that stops after the first two roles.
RejectionCodeTwoRoles(status, newStatus) ==
    LET allRoleErr1 == ValidateTransition(status, newStatus, RoleCustomer)
        allRoleErr2 == IF allRoleErr1 # nil
                       THEN ValidateTransition(status, newStatus, RoleRestaurant)
                       ELSE allRoleErr1
    IN  IF allRoleErr2 = nil THEN StatusForbidden ELSE StatusBadRequest

\* The answer to a transition ValidateTransition rejected with err: 403 when
\* one of the three roles would have been let through, else 400.
RejectionCode(status, newStatus) ==
    LET allRoleErr1 == ValidateTransition(status, newStatus, RoleCustomer)
        allRoleErr2 == IF allRoleErr1 # nil
                       THEN ValidateTransition(status, newStatus, RoleRestaurant)
                       ELSE allRoleErr1
        allRoleErr3 == IF allRoleErr2 # nil
                       THEN ValidateTransition(status, newStatus, RoleDriver)
                       ELSE allRoleErr2
    IN  IF allRoleErr3 = nil THEN StatusForbidden ELSE StatusBadRequest

\* A variant of Transitioned that never assigns the driver.
TransitionedNoDriver(order, newStatus, userID, role) ==
    [order EXCEPT
        !.StatusHistory = Append(@, StatusChange(order.Status, newStatus, userID, role)),
        !.Status = newStatus]

\* A variant of Transitioned that sets the status and forgets the history
\* entry.
TransitionedNoEntry(order, newStatus, userID, role) ==
    [order EXCEPT
        !.DriverID = IF newStatus = StatusPickedUp /\ order.DriverID = ""
                     THEN userID ELSE @,
        !.Status = newStatus]

\* A variant of Transitioned that rebuilds the order around the new status
\* and loses its items and total.
TransitionedRebuilt(order, newStatus, userID, role) ==
    [ZeroOrder EXCEPT
        !.ID = order.ID,
        !.CustomerID = order.CustomerID,
        !.RestaurantID = order.RestaurantID,
        !.DeliveryAddress = order.DeliveryAddress,
        !.DriverID = IF newStatus = StatusPickedUp /\ order.DriverID = ""
                     THEN userID ELSE order.DriverID,
        !.StatusHistory = Append(order.StatusHistory,
                                 StatusChange(order.Status, newStatus, userID, role)),
        !.Status = newStatus]

\* A variant of Transitioned that makes every driver who changes the order
\* its driver.
TransitionedLastDriver(order, newStatus, userID, role) ==
    [order EXCEPT
        !.DriverID = IF role = RoleDriver THEN userID ELSE @,
        !.StatusHistory = Append(@, StatusChange(order.Status, newStatus, userID, role)),
        !.Status = newStatus]

\* A variant of Transitioned whose history entry has the two statuses
\* exchanged.
TransitionedEntryReversed(order, newStatus, userID, role) ==
    [order EXCEPT
        !.DriverID = IF newStatus = StatusPickedUp /\ order.DriverID = ""
                     THEN userID ELSE @,
        !.StatusHistory = Append(@, StatusChange(newStatus, order.Status, userID, role)),
        !.Status = newStatus]

\* A variant of Transitioned that records the order's customer as the actor
\* of every change.
TransitionedChangedByCustomer(order, newStatus, userID, role) ==
    [order EXCEPT
        !.DriverID = IF newStatus = StatusPickedUp /\ order.DriverID = ""
                     THEN userID ELSE @,
        !.StatusHistory = Append(@, StatusChange(order.Status, newStatus,
                                                 order.CustomerID, RoleCustomer)),
        !.Status = newStatus]

\* The order as UpdateOrderStatus changes it before saving: driver assigned
\* on PICKED_UP when none is, history entry appended, status set.
Transitioned(order, newStatus, userID, role) ==
    [order EXCEPT
        !.DriverID = IF newStatus = StatusPickedUp /\ order.DriverID = ""
                     THEN userID ELSE @,
        !.StatusHistory = Append(@, StatusChange(order.Status, newStatus, userID, role)),
        !.Status = newStatus]

\* A variant of UpdateOrderStatus that changes and saves the order before it
\* validates the transition.
UpdateOrderStatusSaveThenValidate(p, userID, role, id, req) ==
    /\ conn[p].pc = "idle"
    /\ IF ~AuthMiddleware(userID, role)
       THEN Respond(p, "update", id, StatusUnauthorized, ZeroOrder) /\ UNCHANGED orders
       ELSE IF ~GetOrderFound(id)
       THEN Respond(p, "update", id, StatusNotFound, ZeroOrder) /\ UNCHANGED orders
       ELSE IF ~req.ok
       THEN Respond(p, "update", id, StatusBadRequest, ZeroOrder) /\ UNCHANGED orders
       ELSE IF ValidateTransition(GetOrder(id).Status, req.Status, role) # nil
       THEN /\ orders' = SaveOrder(Transitioned(GetOrder(id), req.Status, userID, role))
            /\ Respond(p, "update", id,
                       RejectionCode(GetOrder(id).Status, req.Status), ZeroOrder)
       ELSE /\ conn' = [conn EXCEPT ![p] =
                [pc |-> "validated", op |-> "update", id |-> id, userID |-> userID,
                 role |-> role, status |-> req.Status, order |-> GetOrder(id),
                 code |-> 0]]
            /\ UNCHANGED orders
    /\ UNCHANGED <<call, burst>>

\* PATCH /api/orders/{id}/status through AuthMiddleware, up to the point where
\* the transition is rejected or ready to be saved: GetOrder, the decoding of
\* the body, ValidateTransition and the choice of the error code.
UpdateOrderStatus(p, userID, role, id, req) ==
    /\ conn[p].pc = "idle"
    /\ IF ~AuthMiddleware(userID, role)
       THEN Respond(p, "update", id, StatusUnauthorized, ZeroOrder)
       ELSE IF ~GetOrderFound(id)
       THEN Respond(p, "update", id, StatusNotFound, ZeroOrder)
       ELSE IF ~req.ok
       THEN Respond(p, "update", id, StatusBadRequest, ZeroOrder)
       ELSE IF ValidateTransition(GetOrder(id).Status, req.Status, role) # nil
       THEN Respond(p, "update", id,
                    RejectionCode(GetOrder(id).Status, req.Status), ZeroOrder)
       ELSE conn' = [conn EXCEPT ![p] =
                [pc |-> "validated", op |-> "update", id |-> id, userID |-> userID,
                 role |-> role, status |-> req.Status, order |-> GetOrder(id),
                 code |-> 0]]
    /\ UNCHANGED <<orders, call, burst>>

\* The rest of UpdateOrderStatus for a validated transition: the order read
\* is changed, saved with SaveOrder and returned with 200.
UpdateOrderStatusSave(p) ==
    /\ conn[p].pc = "validated"
    /\ LET order == Transitioned(conn[p].order, conn[p].status,
                                 conn[p].userID, conn[p].role)
       IN  /\ orders' = SaveOrder(order)
           /\ Respond(p, "update", conn[p].id, StatusOK, order)
    /\ UNCHANGED <<call, burst>>

\* The response is written and the connection takes its next request.
NextRequest(p) ==
    /\ conn[p].pc = "done"
    /\ conn' = [conn EXCEPT ![p] = Idle]
    /\ UNCHANGED <<orders, call, burst>>

Next ==
    \/ \E p \in Procs, c \in Callers, req \in CreateBodies :
            CreateOrder(p, c[1], c[2], req)
    \/ \E p \in Procs, c \in Callers, id \in OrderIDs, req \in UpdateBodies :
            UpdateOrderStatus(p, c[1], c[2], id, req)
    \/ \E p \in Procs : UpdateOrderStatusSave(p)
    \/ \E p \in Procs : NextRequest(p)

Spec == Init /\ [][Next]_vars

\* ------------------------------------------------- the read-only handlers
\* Each does one store read and answers with what it read; the answer is kept
\* in the order field of the connection, as a record of what the body holds.
\* func (s *Store) ListOrders(statusFilter): the documents Find matches (in no
\* order the code asks for).
ListOrders(statusFilter) ==
    { orders[i] : i \in { j \in DOMAIN orders :
                            statusFilter = "" \/ orders[j].Status = statusFilter } }

\* GET /api/orders/{id}
OrderHandlerGetOrder(p, userID, role, id) ==
    /\ conn[p].pc = "idle"
    /\ IF ~AuthMiddleware(userID, role)
       THEN Respond(p, "get", id, StatusUnauthorized, ZeroOrder)
       ELSE IF ~GetOrderFound(id)
       THEN Respond(p, "get", id, StatusNotFound, ZeroOrder)
       ELSE Respond(p, "get", id, StatusOK, GetOrder(id))
    /\ UNCHANGED <<orders, call, burst>>

\* GET /api/orders?status=
OrderHandlerListOrders(p, userID, role, statusFilter) ==
    /\ conn[p].pc = "idle"
    /\ IF ~AuthMiddleware(userID, role)
       THEN Respond(p, "list", 0, StatusUnauthorized, ZeroOrder)
       ELSE Respond(p, "list", 0, StatusOK, [orders |-> ListOrders(statusFilter)])
    /\ UNCHANGED <<orders, call, burst>>

\* GET /api/orders/{id}/history
GetOrderHistory(p, userID, role, id) ==
    /\ conn[p].pc = "idle"
    /\ IF ~AuthMiddleware(userID, role)
       THEN Respond(p, "history", id, StatusUnauthorized, ZeroOrder)
       ELSE IF ~GetOrderFound(id)
       THEN Respond(p, "history", id, StatusNotFound, ZeroOrder)
       ELSE Respond(p, "history", id, StatusOK,
                    [StatusHistory |-> GetOrder(id).StatusHistory])
    /\ UNCHANGED <<orders, call, burst>>

\* GET /api/orders/{id}/transitions
OrderHandlerGetAllowedTransitions(p, userID, role, id) ==
    /\ conn[p].pc = "idle"
    /\ IF ~AuthMiddleware(userID, role)
       THEN Respond(p, "transitions", id, StatusUnauthorized, ZeroOrder)
       ELSE IF ~GetOrderFound(id)
       THEN Respond(p, "transitions", id, StatusNotFound, ZeroOrder)
       ELSE Respond(p, "transitions", id, StatusOK,
                    [current_status |-> GetOrder(id).Status,
                     allowed_transitions |->
                        GetAllowedTransitions(GetOrder(id).Status, role)])
    /\ UNCHANGED <<orders, call, burst>>

\* All order routes: the handlers that write and the read-only ones.
NextRead ==
    \/ Next
    \/ \E p \in Procs, c \in Callers, id \in OrderIDs :
            OrderHandlerGetOrder(p, c[1], c[2], id)
    \/ \E p \in Procs, c \in Callers, f \in OrderStatus \cup {""} :
            OrderHandlerListOrders(p, c[1], c[2], f)
    \/ \E p \in Procs, c \in Callers, id \in OrderIDs :
            GetOrderHistory(p, c[1], c[2], id)
    \/ \E p \in Procs, c \in Callers, id \in OrderIDs :
            OrderHandlerGetAllowedTransitions(p, c[1], c[2], id)

SpecRead == Init /\ [][NextRead]_vars

\* ------------------------------------------------ a store that can fail
\* A store operation can return an error other than mongo.ErrNoDocuments (the
\* 5 second context runs out, the connection is lost).  A failed FindOne
\* yields no document; a failed ReplaceOne is taken to have replaced nothing.
\* A variant of UpdateOrderStatusSaveFails in which the status reached the
\* store before the write failed.
UpdateOrderStatusSaveFailsHalfway(p) ==
    /\ conn[p].pc = "validated"
    /\ orders' = SaveOrder([GetOrder(conn[p].id) EXCEPT !.Status = conn[p].status])
    /\ Respond(p, "update", conn[p].id, StatusInternalServerError, ZeroOrder)
    /\ UNCHANGED <<call, burst>>

\* UpdateOrderStatus when its SaveOrder returns an error: 500, and the order
\* changed in the handler's memory is dropped.
UpdateOrderStatusSaveFails(p) ==
    /\ conn[p].pc = "validated"
    /\ Respond(p, "update", conn[p].id, StatusInternalServerError, ZeroOrder)
    /\ UNCHANGED <<orders, call, burst>>

\* UpdateOrderStatus when Store.GetOrder returns an error for a reason other
\* than a missing document: the handler answers any err != nil with 404.
UpdateOrderStatusReadFails(p, userID, role, id) ==
    /\ conn[p].pc = "idle"
    /\ AuthMiddleware(userID, role)
    /\ Respond(p, "update", id, StatusNotFound, ZeroOrder)
    /\ UNCHANGED <<orders, call, burst>>

\* CreateOrder when its SaveOrder returns an error: 500, nothing stored.
CreateOrderSaveFails(p, userID, role, req) ==
    /\ conn[p].pc = "idle"
    /\ AuthMiddleware(userID, role)
    /\ CreateOrderCode(role, req) = StatusCreated
    /\ Respond(p, "create", 0, StatusInternalServerError, ZeroOrder)
    /\ UNCHANGED <<orders, call, burst>>

\* The handlers that write, each with a store that works or fails.
NextIO ==
    \/ Next
    \/ \E p \in Procs : UpdateOrderStatusSaveFails(p)
    \/ \E p \in Procs, c \in Callers, id \in OrderIDs :
            UpdateOrderStatusReadFails(p, c[1], c[2], id)
    \/ \E p \in Procs, c \in Callers, req \in CreateBodies :
            CreateOrderSaveFails(p, c[1], c[2], req)

SpecIO == Init /\ [][NextIO]_vars


\* --------------------------------------------- direct calls of statemachine
\* The arguments a caller can pass: OrderStatus and Role are string types, so
\* undeclared values occur as well.
StatusInputs == OrderStatus \cup {"", "REFUNDED"}
RoleInputs == Role \cup {"admin", ""}

InitCall ==
    /\ orders = <<>>
    /\ conn = [p \in Procs |-> Idle]
    /\ burst = NoBurst
    /\ call \in { [NoCall EXCEPT !.currentStatus = s, !.newStatus = t, !.role = r] :
                    s \in StatusInputs, t \in StatusInputs, r \in RoleInputs }

\* statemachine.ValidateTransition(currentStatus, newStatus, role)
CallValidateTransition ==
    /\ call.fn = ""
    /\ call' = [call EXCEPT
            !.fn = "ValidateTransition",
            !.err = ValidateTransition(call.currentStatus, call.newStatus, call.role)]
    /\ UNCHANGED <<orders, conn, burst>>

\* statemachine.GetAllowedTransitions(currentStatus, role)
CallGetAllowedTransitions ==
    /\ call.fn = ""
    /\ call' = [call EXCEPT
            !.fn = "GetAllowedTransitions",
            !.result = GetAllowedTransitions(call.currentStatus, call.role)]
    /\ UNCHANGED <<orders, conn, burst>>

NextCall == CallValidateTransition \/ CallGetAllowedTransitions

SpecCall == InitCall /\ [][NextCall]_vars


\* ------------------------------------------- a burst of concurrent requests
\* The order documents CreateOrder stores under id.
CreatedOrders(id) ==
    { NewOrder(id, x[1][1], x[2]) :
        x \in { y \in Callers \X CreateBodies :
                  /\ AuthMiddleware(y[1][1], y[1][2])
                  /\ CreateOrderCode(y[1][2], y[2]) = StatusCreated } }

\* The order documents one accepted UpdateOrderStatus request makes of order.
AcceptedTransitions(order) ==
    { Transitioned(order, x[1], x[2][1], x[2][2]) :
        x \in { y \in OrderStatus \X Callers :
                  /\ AuthMiddleware(y[2][1], y[2][2])
                  /\ ValidateTransition(order.Status, y[1], y[2][2]) = nil } }

\* The order documents stored under id after CreateOrder and at most n
\* accepted UpdateOrderStatus requests, each served on the order as saved by
\* the one before.
RECURSIVE StoredOrders(_, _)
StoredOrders(id, n) ==
    IF n = 0 THEN CreatedOrders(id)
    ELSE LET before == StoredOrders(id, n - 1)
         IN  before \cup UNION { AcceptedTransitions(o) : o \in before }

\* The requests on order that ValidateTransition lets through.
LegalRequests(order) ==
    { r \in { BurstRequest(c[1], c[2], t) : c \in Callers, t \in OrderStatus } :
        /\ AuthMiddleware(r.userID, r.role)
        /\ ValidateTransition(order.Status, r.status, r.role) = nil }

\* The requests that ask for a status the order has already been given: the
\* target of a transition its history records.
SupersededRequests(order) ==
    { BurstRequest(c[1], c[2], order.StatusHistory[i].ToStatus) :
        c \in Callers, i \in 1..Len(order.StatusHistory) }

\* A stored order and, on every connection, a request on it not yet served:
\* one of the requests is legal from the order's status, the others ask for
\* superseded statuses.
InitBurst ==
    /\ conn = [p \in Procs |-> Idle]
    /\ call = NoCall
    /\ \E o \in StoredOrders(1, Cardinality(OrderStatus)), w \in Procs :
          \E win \in LegalRequests(o),
             lose \in [Procs \ {w} -> SupersededRequests(o)] :
                /\ burst = [order |-> o,
                            reqs |-> [p \in Procs |->
                                        IF p = w THEN win ELSE lose[p]]]
                /\ orders = [i \in {o.ID} |-> o]

\* The connections serve the requests of the burst in any interleaving.
NextBurst ==
    \/ \E p \in Procs :
            UpdateOrderStatus(p, burst.reqs[p].userID, burst.reqs[p].role,
                              burst.order.ID,
                              [ok |-> TRUE, Status |-> burst.reqs[p].status])
    \/ \E p \in Procs : UpdateOrderStatusSave(p)

SpecBurst == InitBurst /\ [][NextBurst]_vars

\* ------------------------------------------ the happy path, one at a time
\* The requests of the full lifecycle in their order: the status asked for
\* and the role of the caller.
HappyPath ==
    << [Status |-> StatusConfirmed, Role |-> RoleRestaurant],
       [Status |-> StatusPreparing, Role |-> RoleRestaurant],
       [Status |-> StatusReadyForPickup, Role |-> RoleRestaurant],
       [Status |-> StatusPickedUp, Role |-> RoleDriver],
       [Status |-> StatusOutForDelivery, Role |-> RoleDriver],
       [Status |-> StatusDelivered, Role |-> RoleDriver] >>

\* A newly created order and no request in progress.
InitHappy ==
    /\ conn = [p \in Procs |-> Idle]
    /\ call = NoCall
    /\ burst = NoBurst
    /\ \E o \in CreatedOrders(1) : orders = [i \in {o.ID} |-> o]

\* The next request of the happy path, sent by a registered user of the role
\* it needs on any connection once no other request is being served.
HappyPathRequest(p) ==
    /\ \A q \in Procs : conn[q].pc # "validated"
    /\ \E id \in DOMAIN orders :
          LET k == Len(orders[id].StatusHistory)
          IN  /\ k <= Len(HappyPath)
              /\ \E u \in DOMAIN users :
                    /\ users[u].Role = HappyPath[k].Role
                    /\ UpdateOrderStatus(p, u, users[u].Role, id,
                                         [ok |-> TRUE, Status |-> HappyPath[k].Status])

NextHappy ==
    \/ \E p \in Procs : HappyPathRequest(p)
    \/ \E p \in Procs : UpdateOrderStatusSave(p)
    \/ \E p \in Procs : NextRequest(p)

SpecHappy == InitHappy /\ [][NextHappy]_vars

\* --------------------------------------------- requests on two orders
\* Two stored orders.  The first connection sends one request on the first
\* of them, which burst records with the order as it is stored at the start;
\* the other connections send any requests on the second, one after another.
InitPair ==
    /\ conn = [p \in Procs |-> Idle]
    /\ call = NoCall
    /\ \E a \in StoredOrders(1, 2), b \in CreatedOrders(2),
          c \in Callers, t \in OrderStatus :
            /\ orders = [i \in {a.ID, b.ID} |-> IF i = a.ID THEN a ELSE b]
            /\ burst = [order |-> a,
                        reqs |-> [p \in Procs |->
                                    IF p = 1 THEN BurstRequest(c[1], c[2], t)
                                    ELSE BurstRequest("", "", "")]]

\* The recorded request on the first order.
PairRequest ==
    UpdateOrderStatus(1, burst.reqs[1].userID, burst.reqs[1].role, burst.order.ID,
                      [ok |-> TRUE, Status |-> burst.reqs[1].status])

\* A request on the other order.
PairOtherRequest(p, userID, role, req) ==
    /\ p # 1
    /\ \E id \in DOMAIN orders \ {burst.order.ID} :
          UpdateOrderStatus(p, userID, role, id, req)

NextPair ==
    \/ PairRequest
    \/ \E p \in Procs, c \in Callers, req \in UpdateBodies :
            PairOtherRequest(p, c[1], c[2], req)
    \/ \E p \in Procs : UpdateOrderStatusSave(p)
    \/ \E p \in Procs \ {1} : NextRequest(p)

SpecPair == InitPair /\ [][NextPair]_vars

\* ------------------------------------- a caller with an undeclared role
\* X-User-Role is whatever string the client sends: AuthMiddleware stores it
\* in the context and the handlers convert it with models.Role(role).  The
\* callers whose role is not one of the three declared: an unknown role, and
\* registered users who misspell theirs.
Outsiders ==
    { <<"mallory", "admin">>, <<"alice", "Customer">>, <<"dan", "DRIVER">> }

\* An empty store.  The first connection serves the requests of one such
\* caller, which burst records with the status the caller asks for; the other
\* connections serve any callers.
InitOutsider ==
    /\ orders = <<>>
    /\ conn = [p \in Procs |-> Idle]
    /\ call = NoCall
    /\ \E c \in Outsiders, t \in OrderStatus :
          burst = [order |-> ZeroOrder,
                   reqs |-> [p \in Procs |->
                               IF p = 1 THEN BurstRequest(c[1], c[2], t)
                               ELSE BurstRequest("", "", "")]]

\* POST /api/orders sent by the recorded caller.
OutsiderCreateOrder(req) ==
    CreateOrder(1, burst.reqs[1].userID, burst.reqs[1].role, req)

\* PATCH /api/orders/{id}/status sent by the recorded caller.
OutsiderUpdateOrderStatus(id) ==
    UpdateOrderStatus(1, burst.reqs[1].userID, burst.reqs[1].role, id,
                      [ok |-> TRUE, Status |-> burst.reqs[1].status])

\* GET /api/orders/{id}/transitions sent by the recorded caller.
OutsiderGetAllowedTransitions(id) ==
    OrderHandlerGetAllowedTransitions(1, burst.reqs[1].userID, burst.reqs[1].role, id)

\* The requests the other connections serve.
OthersCreateOrder(p, userID, role, req) ==
    p # 1 /\ CreateOrder(p, userID, role, req)

OthersUpdateOrderStatus(p, userID, role, id, req) ==
    p # 1 /\ UpdateOrderStatus(p, userID, role, id, req)

NextOutsider ==
    \/ \E req \in CreateBodies : OutsiderCreateOrder(req)
    \/ \E id \in OrderIDs : OutsiderUpdateOrderStatus(id)
    \/ \E id \in OrderIDs : OutsiderGetAllowedTransitions(id)
    \/ \E p \in Procs, c \in Callers, req \in CreateBodies :
            OthersCreateOrder(p, c[1], c[2], req)
    \/ \E p \in Procs, c \in Callers, id \in OrderIDs, req \in UpdateBodies :
            OthersUpdateOrderStatus(p, c[1], c[2], id, req)
    \/ \E p \in Procs : UpdateOrderStatusSave(p)
    \/ \E p \in Procs : NextRequest(p)

SpecOutsider == InitOutsider /\ [][NextOutsider]_vars

\* ------------------------------------- actors who keep an order moving
\* A registered user of an authorised role asks, on an idle connection, for a
\* transition that is legal from the status the order is stored in.
LegalRequest(p) ==
    \E id \in DOMAIN orders :
        \E r \in LegalRequests(orders[id]) :
            UpdateOrderStatus(p, r.userID, r.role, id,
                              [ok |-> TRUE, Status |-> r.status])

NextLive ==
    \/ \E p \in Procs : LegalRequest(p)
    \/ \E p \in Procs : UpdateOrderStatusSave(p)
    \/ \E p \in Procs : NextRequest(p)

\* Every handler goroutine that is past validation gets to run its save (the
\* handler takes no lock and waits for nothing but the store), every answer
\* is written, and the actors do not stop asking while a legal transition
\* can be asked for.
FairLive ==
    /\ \A p \in Procs : WF_vars(UpdateOrderStatusSave(p))
    /\ \A p \in Procs : WF_vars(NextRequest(p))
    /\ WF_vars(\E p \in Procs : LegalRequest(p))

SpecLive == InitHappy /\ [][NextLive]_vars /\ FairLive

\* ================================================================ properties
\* The transition table as the documentation states it: (from, to, role).
DocumentedRules ==
    { <<StatusPlaced, StatusConfirmed, RoleRestaurant>>,
      <<StatusPlaced, StatusCancelled, RoleCustomer>>,
      <<StatusConfirmed, StatusPreparing, RoleRestaurant>>,
      <<StatusConfirmed, StatusCancelled, RoleCustomer>>,
      <<StatusConfirmed, StatusCancelled, RoleRestaurant>>,
      <<StatusPreparing, StatusReadyForPickup, RoleRestaurant>>,
      <<StatusReadyForPickup, StatusPickedUp, RoleDriver>>,
      <<StatusPickedUp, StatusOutForDelivery, RoleDriver>>,
      <<StatusOutForDelivery, StatusDelivered, RoleDriver>> }

\* The (from, to) pairs of the documented table.
DocumentedEdges == { <<r[1], r[2]>> : r \in DocumentedRules }

\* The statuses the documented table has rules for.
DocumentedNonTerminal == { r[1] : r \in DocumentedRules }

\* The legal targets of a status in the order of the documented table.
DocumentedTargets(s) ==
    CASE s = StatusPlaced -> <<StatusConfirmed, StatusCancelled>>
      [] s = StatusConfirmed -> <<StatusPreparing, StatusCancelled>>
      [] s = StatusPreparing -> <<StatusReadyForPickup>>
      [] s = StatusReadyForPickup -> <<StatusPickedUp>>
      [] s = StatusPickedUp -> <<StatusOutForDelivery>>
      [] s = StatusOutForDelivery -> <<StatusDelivered>>
      [] OTHER -> <<>>

Validated == call.fn = "ValidateTransition"

\* C5: ValidateTransition(S, T, R) returns nil for exactly the (from, to,
\* role) triples of the documented table and for no other status pair or role.
C5_AcceptsExactlyTheTable ==
    Validated =>
        (call.err = nil <=>
            <<call.currentStatus, call.newStatus, call.role>> \in DocumentedRules)

\* C5 witness: Scenario D, a customer cancelling a CONFIRMED order, is accepted.
C5_Witness ==
    /\ Validated
    /\ call.currentStatus = StatusConfirmed
    /\ call.newStatus = StatusCancelled
    /\ call.role = RoleCustomer
    /\ call.err = nil

\* C6: from OUT_FOR_DELIVERY the transition to DELIVERED is accepted for the
\* role customer as well as for the role driver.
C6_CustomerMayConfirmDelivery ==
    ( /\ Validated
      /\ call.currentStatus = StatusOutForDelivery
      /\ call.newStatus = StatusDelivered
      /\ call.role \in {RoleCustomer, RoleDriver} )
        => call.err = nil

\* C7: for a status without an entry in the table, ValidateTransition returns
\* the terminal-state error, whatever the target and the role.
C7_TerminalRejectsAll ==
    (Validated /\ call.currentStatus \notin DocumentedNonTerminal) =>
        call.err = Errorf(FmtTerminal, "", call.currentStatus, "", <<>>)

\* C7 witness: DELIVERED is refused as terminal for a role outside the
\* enumeration asking for a target that is no status.
C7_Witness ==
    /\ Validated
    /\ call.currentStatus = StatusDelivered
    /\ call.newStatus = "REFUNDED"
    /\ call.role = "admin"
    /\ call.err.format = FmtTerminal

\* C8: for a non-terminal status S and a target T with no rule S->T,
\* ValidateTransition returns the invalid-transition error, the same for every
\* role: it names S and T and lists the legal targets of S in table order.
C8_IllegalTargetSameForAllRoles ==
    ( /\ Validated
      /\ call.currentStatus \in DocumentedNonTerminal
      /\ <<call.currentStatus, call.newStatus>> \notin DocumentedEdges )
        => call.err = Errorf(FmtInvalid, "", call.currentStatus, call.newStatus,
                             DocumentedTargets(call.currentStatus))

\* C8 witness: Scenario B, a restaurant asking PLACED -> DELIVERED is told the
\* valid transitions [CONFIRMED CANCELLED].
C8_Witness ==
    /\ Validated
    /\ call.currentStatus = StatusPlaced
    /\ call.newStatus = StatusDelivered
    /\ call.role = RoleRestaurant
    /\ call.err.format = FmtInvalid
    /\ call.err.validTargets = <<StatusConfirmed, StatusCancelled>>

\* C9: for a rule S->T and a role R outside the rule's roles,
\* ValidateTransition returns the not-authorized error naming R, S and T.
C9_WrongRoleIsUnauthorized ==
    ( /\ Validated
      /\ <<call.currentStatus, call.newStatus>> \in DocumentedEdges
      /\ <<call.currentStatus, call.newStatus, call.role>> \notin DocumentedRules )
        => call.err = Errorf(FmtUnauthorized, call.role, call.currentStatus,
                             call.newStatus, <<>>)

\* C9 witness: Scenario A, a customer asking PLACED -> CONFIRMED.
C9_Witness ==
    /\ Validated
    /\ call.currentStatus = StatusPlaced
    /\ call.newStatus = StatusConfirmed
    /\ call.role = RoleCustomer
    /\ call.err = Errorf(FmtUnauthorized, RoleCustomer, StatusPlaced, StatusConfirmed, <<>>)

\* C17: GetAllowedTransitions(S, R) returns, in table order, the targets of
\* the rules of S that admit R, for the empty role the targets of all rules
\* of S, and the empty result for a terminal S and when no rule admits R.
C17_AllowedTargetsOfRole ==
    call.fn = "GetAllowedTransitions" =>
        /\ call.result =
              SelectSeq(DocumentedTargets(call.currentStatus),
                        LAMBDA t : \/ call.role = ""
                                   \/ <<call.currentStatus, t, call.role>>
                                         \in DocumentedRules)
        /\ call.currentStatus \notin DocumentedNonTerminal => call.result = <<>>
        /\ ( /\ call.role # ""
             /\ \A t \in OrderStatus :
                   <<call.currentStatus, t, call.role>> \notin DocumentedRules )
               => call.result = <<>>

\* C17 witness: for a customer a CONFIRMED order has the one target
\* CANCELLED, the second rule of the status.
C17_Witness ==
    /\ call.fn = "GetAllowedTransitions"
    /\ call.currentStatus = StatusConfirmed
    /\ call.role = RoleCustomer
    /\ call.result = <<StatusCancelled>>

\* The targets of the rules transitionMap has for a status.
Successors(s) ==
    IF s \in DOMAIN transitionMap
    THEN { transitionMap[s][k].To : k \in 1..Len(transitionMap[s]) }
    ELSE {}

\* The statuses reached from the statuses S by at most n further rules.
RECURSIVE ReachedFrom(_, _)
ReachedFrom(S, n) ==
    IF n = 0 THEN S
    ELSE ReachedFrom(S \cup UNION { Successors(t) : t \in S }, n - 1)

\* C24: the transition table is a directed acyclic graph over the eight
\* statuses: no status is reached again from one of its targets (no cycle,
\* no self-loop), each of the six non-terminal statuses has a rule, DELIVERED
\* and CANCELLED have none, and every rule has a role; the targets listed
\* for a status without a role filter are those of the graph.
C24_TableIsAcyclic ==
    /\ \A s \in OrderStatus :
          /\ Successors(s) \subseteq OrderStatus
          /\ s \notin ReachedFrom(Successors(s), Cardinality(OrderStatus))
          /\ s \in { StatusPlaced, StatusConfirmed, StatusPreparing,
                      StatusReadyForPickup, StatusPickedUp, StatusOutForDelivery }
                => Successors(s) # {}
          /\ s \in {StatusDelivered, StatusCancelled} => Successors(s) = {}
    /\ DOMAIN transitionMap \subseteq OrderStatus
    /\ \A s \in DOMAIN transitionMap :
          \A k \in 1..Len(transitionMap[s]) :
              Len(transitionMap[s][k].AllowedRoles) >= 1
    /\ (call.fn = "GetAllowedTransitions" /\ call.role = "")
          => /\ { call.result[k] : k \in 1..Len(call.result) }
                   = Successors(call.currentStatus)
             /\ \A k \in 1..Len(call.result) :
                   call.currentStatus \notin
                       ReachedFrom({call.result[k]}, Cardinality(OrderStatus))

\* C24 witness: the outgoing rules of CONFIRMED were listed: PREPARING and
\* CANCELLED, from neither of which CONFIRMED is reached again.
C24_Witness ==
    /\ call.fn = "GetAllowedTransitions"
    /\ call.role = ""
    /\ call.currentStatus = StatusConfirmed
    /\ call.result = <<StatusPreparing, StatusCancelled>>
    /\ StatusConfirmed \notin ReachedFrom({StatusPreparing, StatusCancelled},
                                           Cardinality(OrderStatus))


\* ------------------------------------------------ properties of the handlers
\* Connection p holds the 200 answer of an UpdateOrderStatus request.
Succeeded(p) ==
    conn[p].pc = "done" /\ conn[p].op = "update" /\ conn[p].code = StatusOK

\* The status an accepted request read: the FromStatus of the entry it added.
StatusRead(p) ==
    conn[p].order.StatusHistory[Len(conn[p].order.StatusHistory)].FromStatus

IsPrefix(h, g) == Len(h) <= Len(g) /\ \A i \in 1..Len(h) : h[i] = g[i]

TerminalStatuses == {StatusDelivered, StatusCancelled}

\* C1: the GetOrder, the ValidateTransition decision and the SaveOrder of one
\* request form one critical section, so two requests on one order that both
\* read the same current status never both succeed.
C1_NoTwoSucceedFromSameStatus ==
    \A p \in Procs, q \in Procs :
        (p # q /\ Succeeded(p) /\ Succeeded(q) /\ conn[p].id = conn[q].id)
            => StatusRead(p) # StatusRead(q)

\* C2: once the stored status of an order is DELIVERED or CANCELLED, no step
\* changes its stored status or its stored history.
C2_TerminalIsFinal ==
    [][\A id \in DOMAIN orders :
          orders[id].Status \in TerminalStatuses =>
              /\ orders'[id].Status = orders[id].Status
              /\ orders'[id].StatusHistory = orders[id].StatusHistory]_vars

\* C3: the stored StatusHistory of an order is append-only: after every step
\* it has the history stored before the step as a prefix.
C3_HistoryAppendOnly ==
    [][\A id \in DOMAIN orders :
          IsPrefix(orders[id].StatusHistory, orders'[id].StatusHistory)]_vars

\* C10: for every stored status S, requested status T and caller role R of a
\* decodable request, UpdateOrderStatus goes on to its 200 answer iff
\* ValidateTransition(S, T, R) is nil, answers 400 iff the error is the
\* terminal-state or the invalid-transition error, and 403 iff it is the
\* not-authorized error; an unknown order id is answered 404.
C10_CodeFollowsRejectionKind ==
    [][\A p \in Procs :
          /\ \A c \in Callers, id \in OrderIDs, req \in UpdateBodies :
                ( /\ conn[p].pc = "idle" /\ conn'[p].pc # "idle"
                  /\ AuthMiddleware(c[1], c[2])
                  /\ req.ok
                  /\ UpdateOrderStatus(p, c[1], c[2], id, req) )
                    => IF id \notin DOMAIN orders
                       THEN conn'[p].pc = "done" /\ conn'[p].code = StatusNotFound
                       ELSE LET err == ValidateTransition(orders[id].Status,
                                                          req.Status, c[2])
                            IN  /\ err = nil <=> conn'[p].pc = "validated"
                                /\ err.format \in {FmtTerminal, FmtInvalid}
                                     <=> ( /\ conn'[p].pc = "done"
                                           /\ conn'[p].code = StatusBadRequest )
                                /\ err.format = FmtUnauthorized
                                     <=> ( /\ conn'[p].pc = "done"
                                           /\ conn'[p].code = StatusForbidden )
          /\ UpdateOrderStatusSave(p) => conn'[p].code = StatusOK
          /\ ( /\ conn[p].pc # "done"
               /\ conn'[p].pc = "done"
               /\ conn'[p].op = "update"
               /\ conn'[p].code = StatusOK ) => conn[p].pc = "validated"]_vars

\* C10 witness: with an order stored, one request was answered 403 and
\* another is past validation.
C10_Witness ==
    /\ DOMAIN orders # {}
    /\ \E p \in Procs, q \in Procs :
          /\ conn[p].pc = "done" /\ conn[p].op = "update"
          /\ conn[p].code = StatusForbidden
          /\ conn[q].pc = "validated"


\* Connection p holds the answer of a rejected UpdateOrderStatus request.
Rejected(p) ==
    /\ conn[p].pc = "done"
    /\ conn[p].op = "update"
    /\ conn[p].code \in {StatusBadRequest, StatusForbidden, StatusNotFound}

\* C11: the step that rejects an UpdateOrderStatus request (terminal status,
\* illegal transition, unauthorized role, unknown order, undecodable body) is
\* the only step of that request and writes nothing: every stored order, its
\* status, history and driver included, is as it was before the step.
C11_RejectionWritesNothing ==
    [][\A p \in Procs :
          ( /\ conn[p].pc # "done"
            /\ conn'[p].pc = "done"
            /\ conn'[p].op = "update"
            /\ conn'[p].code \in {StatusBadRequest, StatusForbidden, StatusNotFound} )
              => /\ conn[p].pc = "idle"
                 /\ orders' = orders]_vars

\* C11 witness: one request was rejected for an unknown order and, after the
\* order was created, another was rejected on it; the order is as created.
C11_Witness ==
    \E p \in Procs, q \in Procs :
        /\ Rejected(p) /\ conn[p].code = StatusNotFound
        /\ Rejected(q) /\ conn[q].code = StatusForbidden
        /\ conn[q].id \in DOMAIN orders
        /\ orders[conn[q].id] \in CreatedOrders(conn[q].id)

\* C12: an accepted UpdateOrderStatus request writes exactly once, in its save
\* step: the step that validates it writes nothing and keeps the order it
\* read; the save step replaces that one order and nothing else, with status
\* = the requested status and history = the history read followed by one
\* entry (status read, requested status, actor id, actor role).
C12_AcceptedSavesOnce ==
    [][\A p \in Procs :
          /\ (conn[p].pc = "idle" /\ conn'[p].pc = "validated")
                => /\ orders' = orders
                   /\ conn'[p].id \in DOMAIN orders
                   /\ conn'[p].order = orders[conn'[p].id]
          /\ (conn[p].pc = "validated" /\ conn'[p].pc # "validated")
                => LET read == conn[p].order
                       saved == orders'[conn[p].id]
                   IN  /\ conn'[p].pc = "done"
                       /\ conn'[p].code = StatusOK
                       /\ DOMAIN orders' = DOMAIN orders
                       /\ \A i \in DOMAIN orders \ {conn[p].id} : orders'[i] = orders[i]
                       /\ saved.Status = conn[p].status
                       /\ saved.StatusHistory =
                             Append(read.StatusHistory,
                                    StatusChange(read.Status, conn[p].status,
                                                 conn[p].userID, conn[p].role))
                       /\ conn'[p].order = saved]_vars

\* C12 witness: a driver's request on an order the restaurant had moved on
\* was accepted and saved: the stored history ends with the driver's entry.
C12_Witness ==
    \E p \in Procs :
        /\ Succeeded(p)
        /\ orders[conn[p].id] = conn[p].order
        /\ Len(conn[p].order.StatusHistory) >= 5
        /\ conn[p].order.StatusHistory[Len(conn[p].order.StatusHistory)].Role = RoleDriver
        /\ conn[p].order.StatusHistory[Len(conn[p].order.StatusHistory)].ChangedBy
              \in Drivers

\* The status of an order document is the target of its last history entry.
StatusMatchesHistory(order) ==
    /\ Len(order.StatusHistory) >= 1
    /\ order.Status = order.StatusHistory[Len(order.StatusHistory)].ToStatus

\* Connection p takes the 200 answer of a request op in this step.
Answers(p, op) ==
    /\ conn[p].pc = "idle"
    /\ conn'[p].pc = "done"
    /\ conn'[p].op = op
    /\ conn'[p].code = StatusOK

\* C13: in every reachable state the status of every stored order is the
\* toStatus of the last entry of its history, and what a reader is answered
\* (GetOrder: the order, GetOrderHistory: the history, GetAllowedTransitions:
\* the current status) is taken from one stored document whose status and
\* history match.
C13_StatusMatchesHistory ==
    /\ [](\A id \in DOMAIN orders : StatusMatchesHistory(orders[id]))
    /\ [][\A p \in Procs :
            /\ Answers(p, "get") =>
                  /\ conn'[p].order = orders[conn'[p].id]
                  /\ StatusMatchesHistory(conn'[p].order)
            /\ Answers(p, "history") =>
                  /\ conn'[p].order.StatusHistory = orders[conn'[p].id].StatusHistory
                  /\ StatusMatchesHistory(orders[conn'[p].id])
            /\ Answers(p, "transitions") =>
                  /\ conn'[p].order.current_status = orders[conn'[p].id].Status
                  /\ StatusMatchesHistory(orders[conn'[p].id])]_vars

\* C13 witness: a reader is answered the order while a request validated on
\* an earlier status of it has not saved yet, and another reader has been
\* answered its history.
C13_Witness ==
    \E p \in Procs :
        /\ conn[p].pc = "done" /\ conn[p].op = "get" /\ conn[p].code = StatusOK
        /\ Len(conn[p].order.StatusHistory) >= 3
        /\ orders[conn[p].id] = conn[p].order
        /\ \E q \in Procs :
              /\ conn[q].pc = "validated"
              /\ conn[q].order.Status # conn[p].order.Status

\* A history that is a walk of the documented table from the empty status.
LegalWalk(h) ==
    /\ Len(h) >= 1
    /\ h[1].FromStatus = ""
    /\ h[1].ToStatus = StatusPlaced
    /\ \A i \in 2..Len(h) :
          /\ h[i].FromStatus = h[i - 1].ToStatus
          /\ <<h[i].FromStatus, h[i].ToStatus>> \in DocumentedEdges

\* C14: in every reachable state the history of every stored order is a legal
\* walk of the transition graph: the first entry goes from the empty status
\* to PLACED, every later entry starts where the one before ended and is a
\* rule of the table.
C14_HistoryIsLegalWalk ==
    \A id \in DOMAIN orders : LegalWalk(orders[id].StatusHistory)

\* C14 witness: a stored order that went the whole way to DELIVERED while a
\* request validated on an earlier status is still to be saved.
C14_Witness ==
    \E id \in DOMAIN orders, p \in Procs :
        /\ Len(orders[id].StatusHistory) = 7
        /\ orders[id].Status = StatusDelivered
        /\ conn[p].pc = "validated"
        /\ conn[p].id = id

\* C15: the happy path applied one request at a time to a new order: every
\* request answered is answered 200, after k accepted requests the order has
\* the status of the k-th step and k+1 history entries, the next request is
\* one ValidateTransition accepts, and the order that reaches DELIVERED has 7
\* history entries, each starting at the status the one before ended at.
C15_HappyPathSucceeds ==
    /\ \A p \in Procs : conn[p].pc = "done" => conn[p].code = StatusOK
    /\ \A id \in DOMAIN orders :
          LET h == orders[id].StatusHistory
              k == Len(h)
          IN  /\ k \in 1..7
              /\ k >= 2 => orders[id].Status = HappyPath[k - 1].Status
              /\ k <= 6 => ValidateTransition(orders[id].Status, HappyPath[k].Status,
                                              HappyPath[k].Role) = nil
              /\ orders[id].Status = StatusDelivered <=> k = 7
              /\ \A i \in 1..(k - 1) : h[i].ToStatus = h[i + 1].FromStatus

\* C15 witness: the sixth request was answered 200 and the stored order is
\* DELIVERED with seven history entries.
C15_Witness ==
    \E p \in Procs :
        /\ Succeeded(p)
        /\ orders[conn[p].id].Status = StatusDelivered
        /\ Len(orders[conn[p].id].StatusHistory) = 7
        /\ orders[conn[p].id].StatusHistory[1].FromStatus = ""
        /\ orders[conn[p].id].StatusHistory[7].ToStatus = StatusDelivered

\* C16: an order is cancelled only in the early stages: in every execution,
\* concurrent requests included, a stored status becomes CANCELLED only from
\* PLACED or CONFIRMED, never once the order has been PREPARING or later.
C16_CancelledOnlyEarly ==
    [][\A id \in DOMAIN orders :
          ( /\ orders[id].Status # StatusCancelled
            /\ orders'[id].Status = StatusCancelled )
              => orders[id].Status \in {StatusPlaced, StatusConfirmed}]_vars

\* C18: the save step of an accepted request stores the actor id as driverId
\* when the request asks for PICKED_UP and the order it works on has no
\* driver; on every other accepted transition, and when the order has a
\* driver, the stored driverId is the one of the order the request works on.
C18_DriverAssignedOnPickup ==
    [][\A p \in Procs :
          (conn[p].pc = "validated" /\ conn'[p].pc = "done")
            => LET read == conn[p].order
                   saved == orders'[conn[p].id]
               IN  /\ (conn[p].status = StatusPickedUp /\ read.DriverID = "")
                         => saved.DriverID = conn[p].userID
                   /\ (conn[p].status # StatusPickedUp \/ read.DriverID # "")
                         => saved.DriverID = read.DriverID
                   /\ conn'[p].order.DriverID = saved.DriverID]_vars

\* C18 witness: the order was picked up by one driver and then moved on by
\* another; its driver is still the one who picked it up.
C18_Witness ==
    \E p \in Procs :
        /\ Succeeded(p)
        /\ orders[conn[p].id] = conn[p].order
        /\ conn[p].order.DriverID \in Drivers
        /\ \E i \in 1..Len(conn[p].order.StatusHistory) :
              /\ conn[p].order.StatusHistory[i].ToStatus = StatusPickedUp
              /\ conn[p].order.StatusHistory[i].ChangedBy = conn[p].order.DriverID
        /\ conn[p].order.StatusHistory[Len(conn[p].order.StatusHistory)].ChangedBy
              \in Drivers \ {conn[p].order.DriverID}

\* Connection p is answered a CreateOrder request in this step.
AnswersCreate(p) ==
    /\ conn[p].pc = "idle"
    /\ conn'[p].pc = "done"
    /\ conn'[p].op = "create"

\* C19: an order enters the store only by a CreateOrder step answered 201, in
\* status PLACED with the one history entry (empty status -> PLACED, changed
\* by its customer, role customer); CreateOrder answers 201 only to a caller
\* whose role is customer, whose id becomes the order's customer; a caller
\* with any other role is answered 403 and the store is left as it was.
C19_CreatedPlacedByCustomer ==
    [][/\ \A id \in DOMAIN orders' \ DOMAIN orders :
             /\ orders'[id].Status = StatusPlaced
             /\ orders'[id].StatusHistory =
                   << StatusChange("", StatusPlaced, orders'[id].CustomerID,
                                   RoleCustomer) >>
             /\ \E p \in Procs :
                   /\ AnswersCreate(p)
                   /\ conn'[p].code = StatusCreated
                   /\ conn'[p].order = orders'[id]
       /\ \A p \in Procs :
             (AnswersCreate(p) /\ conn'[p].code # StatusCreated) => orders' = orders
       /\ \A p \in Procs, c \in Callers, req \in CreateBodies :
             (AnswersCreate(p) /\ CreateOrder(p, c[1], c[2], req))
               => /\ conn'[p].code = StatusCreated
                       => /\ c[2] = RoleCustomer
                          /\ conn'[p].id \in DOMAIN orders' \ DOMAIN orders
                          /\ orders'[conn'[p].id].CustomerID = c[1]
                  /\ (AuthMiddleware(c[1], c[2]) /\ c[2] # RoleCustomer)
                       => conn'[p].code = StatusForbidden]_vars

\* C19 witness: a customer's order is stored as created and answered 201,
\* and another caller's create request was answered 403.
C19_Witness ==
    \E p \in Procs, q \in Procs :
        /\ conn[p].pc = "done" /\ conn[p].op = "create"
        /\ conn[p].code = StatusCreated
        /\ orders[conn[p].id] = conn[p].order
        /\ conn[p].order.Status = StatusPlaced
        /\ Len(conn[p].order.StatusHistory) = 1
        /\ conn[q].pc = "done" /\ conn[q].op = "create"
        /\ conn[q].code = StatusForbidden

\* A create body as the README gives it: an existing restaurant, a delivery
\* address and at least one item with a quantity, named without a menu item
\* id (name and price are no fields of OrderItemRequest and are dropped by
\* the decoder).
ReadmeCreateBody(req) ==
    /\ req.ok
    /\ req.RestaurantID \in DOMAIN users
    /\ users[req.RestaurantID].Role = RoleRestaurant
    /\ req.DeliveryAddress # ""
    /\ Len(req.Items) >= 1
    /\ \A i \in 1..Len(req.Items) :
          req.Items[i].MenuItemID = "" /\ req.Items[i].Quantity >= 1

\* C20: a customer's create request that names an existing restaurant, gives
\* a delivery address and lists its items by name, quantity and price, without
\* a menu item id, is answered 201 with the order in status PLACED.
C20_ReadmeCreateAccepted ==
    [][\A p \in Procs, c \in Callers, req \in CreateBodies :
          ( /\ AnswersCreate(p)
            /\ AuthMiddleware(c[1], c[2])
            /\ c[2] = RoleCustomer
            /\ ReadmeCreateBody(req)
            /\ CreateOrder(p, c[1], c[2], req) )
              => /\ conn'[p].code = StatusCreated
                 /\ conn'[p].order.Status = StatusPlaced]_vars

\* The callers whose request lacks X-User-ID or X-User-Role.
MissingHeader == { c \in Callers : c[1] = "" \/ c[2] = "" }

\* Connection p is answered 401 in this step and no stored order is created
\* or changed.
Unauthorized401(p) ==
    /\ conn'[p].pc = "done"
    /\ conn'[p].code = StatusUnauthorized
    /\ orders' = orders

\* C21: a request to create, read, list or update orders that lacks
\* X-User-ID or X-User-Role is answered 401 at once, its handler does not run
\* (nothing is validated or saved for it) and no stored order is created or
\* changed.
C21_MissingHeaderIs401 ==
    [][\A p \in Procs :
          /\ \A c \in MissingHeader :
                /\ conn'[p].op = "create" =>
                      \A req \in CreateBodies :
                          CreateOrder(p, c[1], c[2], req) => Unauthorized401(p)
                /\ conn'[p].op = "update" =>
                      \A id \in OrderIDs, req \in UpdateBodies :
                          UpdateOrderStatus(p, c[1], c[2], id, req) => Unauthorized401(p)
                /\ conn'[p].op = "get" =>
                      \A id \in OrderIDs :
                          OrderHandlerGetOrder(p, c[1], c[2], id) => Unauthorized401(p)
                /\ conn'[p].op = "history" =>
                      \A id \in OrderIDs :
                          GetOrderHistory(p, c[1], c[2], id) => Unauthorized401(p)
                /\ conn'[p].op = "transitions" =>
                      \A id \in OrderIDs :
                          OrderHandlerGetAllowedTransitions(p, c[1], c[2], id)
                              => Unauthorized401(p)
                /\ conn'[p].op = "list" =>
                      \A f \in OrderStatus \cup {""} :
                          OrderHandlerListOrders(p, c[1], c[2], f) => Unauthorized401(p)
          /\ (conn[p].pc = "idle" /\ conn'[p].pc = "done"
                /\ conn'[p].code = StatusUnauthorized) => orders' = orders]_vars

\* C21 witness: with an order stored, an update request and a read request
\* without a header have both been answered 401 and the order is as created.
C21_Witness ==
    \E p \in Procs, q \in Procs :
        /\ conn[p].pc = "done" /\ conn[p].op = "update"
        /\ conn[p].code = StatusUnauthorized
        /\ conn[q].pc = "done" /\ conn[q].op = "get"
        /\ conn[q].code = StatusUnauthorized
        /\ conn[p].id \in DOMAIN orders
        /\ orders[conn[p].id] \in CreatedOrders(conn[p].id)

C23_NotFoundOnlyWhenAbsent ==
    [][\A p \in Procs :
          ( /\ conn[p].pc = "idle"
            /\ conn'[p].pc = "done"
            /\ conn'[p].op = "update"
            /\ conn'[p].code = StatusNotFound )
              => conn'[p].id \notin DOMAIN orders]_vars

\* The first order is stored as it was when the run started.
FirstOrderUntouched ==
    /\ burst.order.ID \in DOMAIN orders
    /\ orders[burst.order.ID] = burst.order

\* The outcome of the recorded request as the first order and the request
\* alone determine it, whatever has been requested on the other order.
FirstOutcomeAlone ==
    LET r == burst.reqs[1]
        err == ValidateTransition(burst.order.Status, r.status, r.role)
        saved == Transitioned(burst.order, r.status, r.userID, r.role)
    IN  CASE conn[1].pc = "idle" -> FirstOrderUntouched
          [] ~AuthMiddleware(r.userID, r.role) ->
                /\ conn[1].pc = "done" /\ conn[1].code = StatusUnauthorized
                /\ FirstOrderUntouched
          [] err = nil /\ conn[1].pc = "validated" ->
                /\ conn[1].order = burst.order
                /\ FirstOrderUntouched
          [] err = nil /\ conn[1].pc = "done" ->
                /\ conn[1].code = StatusOK
                /\ conn[1].order = saved
                /\ burst.order.ID \in DOMAIN orders
                /\ orders[burst.order.ID] = saved
          [] OTHER ->
                /\ conn[1].pc = "done"
                /\ conn[1].code = IF err.format = FmtUnauthorized
                                  THEN StatusForbidden ELSE StatusBadRequest
                /\ FirstOrderUntouched

\* C25: requests on different orders are independent: a step of a request on
\* one order leaves every other stored order as it is, and the outcome of a
\* request on the first order (accepted, or the kind of rejection) and what it
\* stores are those the first order and the request determine alone, in
\* every interleaving with requests on the second order.
C25_OrdersIndependent ==
    /\ []FirstOutcomeAlone
    /\ [][\A p \in Procs :
            conn'[p] # conn[p] =>
                \A id \in DOMAIN orders :
                    id # conn'[p].id =>
                        (id \in DOMAIN orders' /\ orders'[id] = orders[id])]_vars

\* C25 witness: the request on the first order was accepted and saved after
\* the second order had been moved on twice and while another request on the
\* second order is validated.
C25_Witness ==
    /\ conn[1].pc = "done"
    /\ conn[1].code = StatusOK
    /\ \E id \in DOMAIN orders \ {burst.order.ID}, p \in Procs :
          /\ Len(orders[id].StatusHistory) >= 3
          /\ conn[p].pc = "validated"
          /\ conn[p].id = id

\* The fields of an order that are set when it is created.
CreationFields(order) ==
    [ID |-> order.ID, CustomerID |-> order.CustomerID,
     RestaurantID |-> order.RestaurantID, Items |-> order.Items,
     TotalAmount |-> order.TotalAmount, DeliveryAddress |-> order.DeliveryAddress]

\* C27: a stored order is never deleted; only the save step of an accepted
\* UpdateOrderStatus request on it changes it, and no step changes its id,
\* customer, restaurant, items, total amount or delivery address.
C27_CreationFieldsNeverChange ==
    [][\A id \in DOMAIN orders :
          /\ id \in DOMAIN orders'
          /\ orders'[id].ID = id
          /\ CreationFields(orders'[id]) = CreationFields(orders[id])
          /\ orders'[id] # orders[id] =>
                \E p \in Procs :
                    /\ conn[p].pc = "validated"
                    /\ conn[p].op = "update"
                    /\ conn[p].id = id
                    /\ conn'[p].pc = "done"
                    /\ conn'[p].code = StatusOK]_vars

\* C27 witness: an order that went all the way to DELIVERED has the fields
\* of an order as created.
C27_Witness ==
    \E id \in DOMAIN orders :
        /\ orders[id].Status = StatusDelivered
        /\ orders[id].DriverID \in Drivers
        /\ Len(orders[id].Items) = 2
        /\ \E o \in CreatedOrders(id) : CreationFields(o) = CreationFields(orders[id])

\* C28: every order can make progress to a terminal status: a request past
\* validation is always answered (no request blocks), a stored order in a
\* non-terminal status always has a transition some registered actor is
\* allowed to make, and when the actors keep asking for legal transitions
\* every stored order eventually is DELIVERED or CANCELLED.
C28_ReachesTerminal ==
    /\ \A p \in Procs : (conn[p].pc = "validated") ~> (conn[p].pc = "done")
    /\ [](\A id \in DOMAIN orders :
             orders[id].Status \notin TerminalStatuses
                => LegalRequests(orders[id]) # {})
    /\ <>(\A id \in DOMAIN orders : orders[id].Status \in TerminalStatuses)

\* C28 witness: the order was delivered after two concurrent requests were
\* both accepted from one status.
C28_Witness ==
    \E id \in DOMAIN orders :
        /\ orders[id].Status = StatusDelivered
        /\ \A p \in Procs : Succeeded(p) /\ conn[p].id = id
        /\ \E p \in Procs, q \in Procs : p # q /\ StatusRead(p) = StatusRead(q)

\* C29: in every execution, concurrent requests included, every change of
\* the stored status of an order is an edge of the transition table: the
\* status moves only to a direct successor of the status stored before.
C29_StatusMovesAlongEdges ==
    [][\A id \in DOMAIN orders :
          orders'[id].Status # orders[id].Status
            => <<orders[id].Status, orders'[id].Status>> \in DocumentedEdges]_vars

\* The status an accepted request asked for.
StatusAsked(p) ==
    conn[p].order.StatusHistory[Len(conn[p].order.StatusHistory)].ToStatus

\* C30: in every execution, concurrent requests included, at most one
\* accepted request per order has a given target status (so at most 6 are
\* accepted for an order): two accepted requests on one order never asked
\* for the same status.
C30_OneAcceptedPerTarget ==
    \A p \in Procs, q \in Procs :
        (p # q /\ Succeeded(p) /\ Succeeded(q) /\ conn[p].id = conn[q].id)
            => StatusAsked(p) # StatusAsked(q)

\* C31: in every execution, concurrent requests included, a stored order
\* that has a driver keeps it: no step replaces a non-empty stored DriverID
\* by another actor's id or by the empty string.
C31_DriverNeverChanges ==
    [][\A id \in DOMAIN orders :
          orders[id].DriverID # "" => orders'[id].DriverID = orders[id].DriverID]_vars

\* The positions of the history entries that record a pickup.
Pickups(order) ==
    { i \in 1..Len(order.StatusHistory) :
        order.StatusHistory[i].ToStatus = StatusPickedUp }

\* C32: in every reachable state a stored order has a driver exactly when
\* its history has an entry to PICKED_UP, and every such entry was made by
\* that driver in the role driver.
C32_DriverIffPickedUp ==
    \A id \in DOMAIN orders :
        /\ orders[id].DriverID # "" <=> Pickups(orders[id]) # {}
        /\ \A i \in Pickups(orders[id]) :
              /\ orders[id].StatusHistory[i].ChangedBy = orders[id].DriverID
              /\ orders[id].StatusHistory[i].Role = RoleDriver

\* An order is stored past its pickup, with a driver, and the last change
\* of its history was made by somebody else.
C32_Witness ==
    \E id \in DOMAIN orders :
        /\ orders[id].DriverID # ""
        /\ Pickups(orders[id]) # {}
        /\ orders[id].Status \in {StatusOutForDelivery, StatusDelivered}
        /\ orders[id].StatusHistory[Len(orders[id].StatusHistory)].ChangedBy
              # orders[id].DriverID

\* The roles the table allows on the rule from -> to (none when the table
\* has no such rule).
RuleRoles(from, to) ==
    IF from \notin DOMAIN transitionMap THEN {}
    ELSE UNION { { transitionMap[from][k].AllowedRoles[j] :
                     j \in 1..Len(transitionMap[from][k].AllowedRoles) } :
                 k \in { k \in 1..Len(transitionMap[from]) :
                           transitionMap[from][k].To = to } }

\* C33: in every reachable state every entry after the creation entry of
\* every stored history records a role the table allows on the rule from the
\* entry's FromStatus to its ToStatus: no entry records a transition made by
\* an unauthorised role.
C33_HistoryRolesAuthorised ==
    \A id \in DOMAIN orders :
        \A i \in 2..Len(orders[id].StatusHistory) :
            orders[id].StatusHistory[i].Role
                \in RuleRoles(orders[id].StatusHistory[i].FromStatus,
                              orders[id].StatusHistory[i].ToStatus)

\* A stored order cancelled by its customer after the restaurant confirmed
\* it: two entries after the creation entry, made in two roles, the second
\* on a rule that allows more than one role.
C33_Witness ==
    \E id \in DOMAIN orders :
        /\ Len(orders[id].StatusHistory) = 3
        /\ orders[id].StatusHistory[2].Role = RoleRestaurant
        /\ orders[id].StatusHistory[3].Role = RoleCustomer
        /\ orders[id].StatusHistory[3].ToStatus = StatusCancelled
        /\ RuleRoles(StatusConfirmed, StatusCancelled) = {RoleCustomer, RoleRestaurant}

\* The targets a sequence of statuses lists.
Listed(targets) == { targets[k] : k \in 1..Len(targets) }

\* The discovery query and the validator agree on a status, for the three
\* roles and every target.
QueryAgreesWithValidator(s) ==
    \A r \in Role, t \in StatusInputs :
        t \in Listed(GetAllowedTransitions(s, r)) <=> ValidateTransition(s, t, r) = nil

\* C34: the discovery query agrees with the validator: for every status S,
\* target T and role R of the three roles, T is listed by
\* GetAllowedTransitions(S, R) iff ValidateTransition(S, T, R) succeeds; and
\* when GET /api/orders/{id}/transitions answers a caller with 200, a PATCH
\* of the same caller on the order as it is then stored is accepted for
\* exactly the targets the answer lists.
C34_DiscoveryAgreesWithValidator ==
    /\ [](\A s \in StatusInputs : QueryAgreesWithValidator(s))
    /\ [][\A p \in Procs, c \in Callers, id \in OrderIDs :
            ( /\ OrderHandlerGetAllowedTransitions(p, c[1], c[2], id)
              /\ conn'[p].op = "transitions"
              /\ conn'[p].code = StatusOK
              /\ c[2] \in Role )
            => \A req \in UpdateBodies :
                  req.ok =>
                    ( req.Status \in Listed(conn'[p].order.allowed_transitions)
                      <=> ENABLED ( /\ UpdateOrderStatus(p, c[1], c[2], id, req)
                                    /\ conn'[p].pc = "validated" ) )]_vars

\* The restaurant was told that its CONFIRMED order can go to PREPARING or
\* CANCELLED, and a request for one of the two on that order is validated.
C34_Witness ==
    \E p \in Procs, q \in Procs :
        /\ conn[p].pc = "done" /\ conn[p].op = "transitions"
        /\ conn[p].code = StatusOK
        /\ conn[p].order.current_status = StatusConfirmed
        /\ conn[p].order.allowed_transitions = <<StatusPreparing, StatusCancelled>>
        /\ conn[q].pc = "validated"
        /\ conn[q].id = conn[p].id
        /\ conn[q].role = RoleRestaurant
        /\ conn[q].order.Status = StatusConfirmed
        /\ orders[conn[q].id].Status = StatusConfirmed
        /\ conn[q].status = StatusCancelled

\* The statemachine functions called with a role outside the enumeration:
\* no transition is accepted and no target returned, whatever the statuses.
OutsideRoleHasNoTransition ==
    \A c \in Outsiders, s \in StatusInputs :
        /\ GetAllowedTransitions(s, c[2]) = <<>>
        /\ \A t \in StatusInputs : ValidateTransition(s, t, c[2]) # nil

\* What the connection of the caller with the undeclared role has been
\* answered: never 401, a create always 403, an update never 200 (and never
\* on its way to a save), a transitions query no target.
OutsiderTurnedAway ==
    /\ conn[1].pc # "validated"
    /\ conn[1].pc = "done" =>
          /\ conn[1].code # StatusUnauthorized
          /\ conn[1].op = "create" => conn[1].code = StatusForbidden
          /\ conn[1].op = "update" =>
                conn[1].code \in {StatusBadRequest, StatusForbidden, StatusNotFound}
          /\ (conn[1].op = "transitions" /\ conn[1].code = StatusOK) =>
                conn[1].order.allowed_transitions = <<>>

\* C35: a request whose role is a non-empty string outside customer,
\* restaurant, driver passes AuthMiddleware (it is never answered 401) but
\* never creates an order and never changes a stored one: CreateOrder
\* answers 403, ValidateTransition accepts it for no pair of statuses,
\* GetAllowedTransitions returns no target for it, and no step that serves
\* it changes the orders collection.
C35_UndeclaredRoleChangesNothing ==
    /\ [](\A c \in Outsiders : c[2] \notin Role /\ AuthMiddleware(c[1], c[2]))
    /\ []OutsideRoleHasNoTransition
    /\ []OutsiderTurnedAway
    /\ [][conn'[1] # conn[1] => orders' = orders]_vars

\* The caller with role admin asked for CONFIRMED on a stored PLACED order,
\* which the restaurant may ask for, and was answered 403 while a request of
\* another caller on that order is about to be saved.
C35_Witness ==
    /\ burst.reqs[1].role = "admin"
    /\ burst.reqs[1].status = StatusConfirmed
    /\ conn[1].pc = "done" /\ conn[1].op = "update"
    /\ conn[1].code = StatusForbidden
    /\ conn[1].id \in DOMAIN orders
    /\ orders[conn[1].id].Status = StatusPlaced
    /\ \E q \in Procs : conn[q].pc = "validated" /\ conn[q].id = conn[1].id

\* Every request of the burst is answered.
AllAnswered == \A p \in Procs : conn[p].pc = "done"

\* C4: of N concurrent requests on one order, one asking for a transition that
\* is legal from the order's status and the others for superseded ones, exactly
\* one succeeds, N-1 are rejected, and the stored history ends up with exactly
\* one entry more.
C4_BurstOneSuccess ==
    AllAnswered =>
        /\ Cardinality({ p \in Procs : Succeeded(p) }) = 1
        /\ Cardinality({ p \in Procs : conn[p].code \in
                            {StatusBadRequest, StatusUnauthorized, StatusForbidden} })
              = NumProcs - 1
        /\ LET stored == orders[burst.order.ID].StatusHistory
           IN  /\ Len(stored) = Len(burst.order.StatusHistory) + 1
               /\ IsPrefix(burst.order.StatusHistory, stored)

\* C4 witness: a burst on an order past CONFIRMED is answered, with a
\* rejected request served before the accepted one was saved and the stored
\* history one entry longer.
C4_Witness ==
    /\ AllAnswered
    /\ Len(burst.order.StatusHistory) >= 3
    /\ \E p \in Procs : Succeeded(p)
    /\ \E p \in Procs : conn[p].code = StatusBadRequest
    /\ Len(orders[burst.order.ID].StatusHistory) = Len(burst.order.StatusHistory) + 1

====
